---- MODULE Spec2Model ----
(***************************************************************************)
(* Model of src/app.py: the LinkedIn post generator pipeline.              *)
(*                                                                         *)
(* A text is a sequence of one-character strings; the fixed parts of a     *)
(* message or of a prompt template are single tokens.  A JSON object is a  *)
(* function from the keys it holds to their values.  Each invocation of    *)
(* process_topic is a coroutine with three suspension points (the GET to   *)
(* the search provider and the two POSTs to the language-model provider);  *)
(* one action models the code that runs between two suspension points.     *)
(***************************************************************************)
EXTENDS Integers, Sequences, FiniteSets, TLC

VARIABLES config, inv

vars == <<config, inv>>

(***************************************************************************)
(* Bounds of the model.                                                    *)
(***************************************************************************)
MaxTopicLen == 2

MaxOrganic == 2

MaxConfigured == 2

(***************************************************************************)
(* Texts.                                                                  *)
(***************************************************************************)
Min(a, b) == IF a <= b THEN a ELSE b

Max(a, b) == IF a >= b THEN a ELSE b

SeqsUpTo(S, n) == UNION {[1..k -> S] : k \in 0..n}

Whitespace == {" ", "\n", "\t"}

\* str.strip(): the text without its leading and trailing whitespace.
Strip(s) ==
    LET keep == {i \in 1..Len(s) : s[i] \notin Whitespace}
    IN  IF keep = {} THEN <<>>
        ELSE LET lo == CHOOSE i \in keep : \A j \in keep : i <= j
                 hi == CHOOSE i \in keep : \A j \in keep : j <= i
             IN  SubSeq(s, lo, hi)

\* `sub in s` for texts: sub occurs in s as a contiguous run.
Contains(s, sub) ==
    \E i \in 1..(Len(s) - Len(sub) + 1) : SubSeq(s, i, i + Len(sub) - 1) = sub

StartsWith(s, pre) == Len(pre) <= Len(s) /\ SubSeq(s, 1, Len(pre)) = pre

Digit(d) == <<"0", "1", "2", "3", "4", "5", "6", "7", "8", "9">>[d + 1]

\* The decimal text of a natural number, as an f-string formats an int.
RECURSIVE IntToStr(_)
IntToStr(n) == IF n < 10 THEN <<Digit(n)>> ELSE IntToStr(n \div 10) \o <<Digit(n % 10)>>

\* sep.join(parts)
RECURSIVE Join(_, _)
Join(sep, parts) ==
    IF Len(parts) = 0 THEN <<>>
    ELSE IF Len(parts) = 1 THEN parts[1]
    ELSE parts[1] \o sep \o Join(sep, Tail(parts))

\* seq[:n] of Python, for any integer n.
SlicePrefix(s, n) ==
    IF n >= 0 THEN SubSeq(s, 1, Min(n, Len(s))) ELSE SubSeq(s, 1, Max(Len(s) + n, 0))

\* dict.get(key, default)
DictGet(obj, key, default) == IF key \in DOMAIN obj THEN obj[key] ELSE default

(***************************************************************************)
(* Exceptions: a class and the text str(e) gives.                          *)
(***************************************************************************)
ExceptionClasses == {"Exception", "ValueError", "KeyError", "IndexError",
                     "JSONDecodeError", "TimeoutException", "ConnectError"}

Raise(cls, msg) == [cls |-> cls, msg |-> msg]

\* str(e): the message; a KeyError shows the repr of the missing key.
ExcStr(e) == IF e.cls = "KeyError" THEN <<"'">> \o e.msg \o <<"'">> ELSE e.msg

Ok(v) == [ok |-> TRUE, value |-> v]

Err(e) == [ok |-> FALSE, exc |-> e]

(***************************************************************************)
(* Configuration, read once at start-up.  An unset or empty key is the     *)
(* empty text: both are false for `if not KEY`.                            *)
(***************************************************************************)
Keys == {<<>>, <<"k">>}

Configs == [SERPAPI_KEY : Keys, GROQ_API_KEY : Keys,
            MAX_SEARCH_RESULTS : {-1} \cup (0..MaxConfigured)]

SERPAPI_KEY == config.SERPAPI_KEY

GROQ_API_KEY == config.GROQ_API_KEY

MAX_SEARCH_RESULTS == config.MAX_SEARCH_RESULTS

(***************************************************************************)
(* What the providers may answer.  An HTTP call either raises (a timeout,  *)
(* a transport error) or gives a response with a status code, a body text  *)
(* and the outcome of response.json().                                     *)
(***************************************************************************)
HttpRaise(e) == [kind |-> "raise", exc |-> e]

HttpResponse(status, text, json) ==
    [kind |-> "response", status_code |-> status, text |-> text, json |-> json]

TransportErrors == {Raise("TimeoutException", <<>>),
                    Raise("ConnectError", <<"All connection attempts failed">>)}

NotJson == Err(Raise("JSONDecodeError", <<"Expecting value: line 1 column 1 (char 0)">>))

ErrorStatuses == {404, 500}

Bodies == {<<"b">>}

FailedResponses ==
    {HttpRaise(e) : e \in TransportErrors}
    \cup {HttpResponse(sc, b, NotJson) : sc \in ErrorStatuses, b \in Bodies}
    \cup {HttpResponse(200, <<"<html>">>, NotJson)}

TopicChars == {" ", "a"}

Topics == SeqsUpTo(TopicChars, MaxTopicLen)

\* An organic result holds any of the two fields the code reads.
Entries == {[k \in K |-> IF k = "title" THEN <<"T">> ELSE <<"S">>] :
                K \in SUBSET {"title", "snippet"}}

SearchData == {[organic_results |-> l] : l \in SeqsUpTo(Entries, MaxOrganic)}
              \cup {[error |-> <<"Google hasn't returned any results for this query.">>]}

SearchResponses == FailedResponses \cup {HttpResponse(200, <<"{}">>, Ok(d)) : d \in SearchData}

Contents == {<<"x">>, <<" ", "y", "\n">>, <<" ">>}

Choice(c) == [message |-> [role |-> <<"assistant">>, content |-> c]]

ChatData == {[error |-> <<"e">>],
             [choices |-> <<>>],
             [choices |-> <<[finish_reason |-> <<"stop">>]>>],
             [choices |-> <<[message |-> [role |-> <<"assistant">>]]>>]}
            \cup {[choices |-> <<Choice(c)>>] : c \in Contents}

ChatResponses == FailedResponses \cup {HttpResponse(200, <<"{}">>, Ok(d)) : d \in ChatData}

\* The smaller inputs of the runs with two concurrent invocations.
ConcTopics == {<<" ">>, <<"a">>, <<"a", " ">>}

ConcSearchResponses ==
    {HttpResponse(500, <<"b">>, NotJson),
     HttpResponse(200, <<"{}">>, Ok([error |-> <<"e">>])),
     HttpResponse(200, <<"{}">>, Ok([organic_results |-> <<[title |-> <<"T">>, snippet |-> <<"S">>]>>]))}

ConcChatResponses ==
    {HttpResponse(500, <<"b">>, NotJson),
     HttpResponse(200, <<"{}">>, Ok([error |-> <<"e">>])),
     HttpResponse(200, <<"{}">>, Ok([choices |-> <<Choice(<<"x">>)>>])),
     HttpResponse(200, <<"{}">>, Ok([choices |-> <<Choice(<<" ", "y", "\n">>)>>]))}

(***************************************************************************)
(* search_topic.                                                           *)
(***************************************************************************)
\* Up to the GET: the credential check and the query parameters.
search_topic_request(topic) ==
    IF Len(SERPAPI_KEY) = 0
    THEN Err(Raise("ValueError", <<"SerpAPI key is not configured">>))
    ELSE Ok([api_key |-> SERPAPI_KEY, q |-> topic, google_domain |-> <<"google.com">>,
             gl |-> <<"us">>, hl |-> <<"en">>, num |-> MAX_SEARCH_RESULTS])

\* Mutant of search_result: dict.get without a default, so an absent field is
\* None and reads "None" in the prompt.
search_result_none(result) ==
    [title |-> DictGet(result, "title", <<"None">>),
     snippet |-> DictGet(result, "snippet", <<"None">>)]

\* One organic result as the code keeps it: absent fields become "".
search_result(result) ==
    [title |-> DictGet(result, "title", <<>>), snippet |-> DictGet(result, "snippet", <<>>)]

\* Mutant of extract_results: the cut to the configured maximum is forgotten.
extract_results_uncapped(data) ==
    IF "organic_results" \in DOMAIN data
    THEN [i \in 1..Len(data.organic_results) |-> search_result(data.organic_results[i])]
    ELSE <<>>

\* The organic results of the parsed body, cut to the configured maximum.
extract_results(data) ==
    IF "organic_results" \in DOMAIN data
    THEN LET kept == SlicePrefix(data.organic_results, MAX_SEARCH_RESULTS)
         IN  [i \in 1..Len(kept) |-> search_result(kept[i])]
    ELSE <<>>

\* Mutant of search_topic_result: the status code is not looked at.
search_topic_result_nostatus(resp) ==
    IF resp.kind = "raise" THEN Err(resp.exc)
    ELSE IF ~resp.json.ok THEN Err(resp.json.exc)
    ELSE LET search_results == extract_results(resp.json.value)
         IN  IF Len(search_results) = 0
             THEN Err(Raise("Exception", <<"No search results found">>))
             ELSE Ok(search_results)

\* Mutant of search_topic_result: an empty result list is returned as it is.
search_topic_result_noempty(resp) ==
    IF resp.kind = "raise" THEN Err(resp.exc)
    ELSE IF resp.status_code # 200
    THEN Err(Raise("Exception", <<"SerpAPI request failed with status code ">>
                                \o IntToStr(resp.status_code) \o <<": ">> \o resp.text))
    ELSE IF ~resp.json.ok THEN Err(resp.json.exc)
    ELSE Ok(extract_results(resp.json.value))

\* From the GET's outcome to the return or the raise.
search_topic_result(resp) ==
    IF resp.kind = "raise" THEN Err(resp.exc)
    ELSE IF resp.status_code # 200
    THEN Err(Raise("Exception", <<"SerpAPI request failed with status code ">>
                                \o IntToStr(resp.status_code) \o <<": ">> \o resp.text))
    ELSE IF ~resp.json.ok THEN Err(resp.json.exc)
    ELSE LET search_results == extract_results(resp.json.value)
         IN  IF Len(search_results) = 0
             THEN Err(Raise("Exception", <<"No search results found">>))
             ELSE Ok(search_results)

(***************************************************************************)
(* _call_groq_api.                                                         *)
(***************************************************************************)
GROQ_MODEL == <<"meta-llama/llama-4-maverick-17b-128e-instruct">>

\* Mutant of call_groq_api_request: the credential is not checked.
call_groq_api_request_nocheck(prompt) ==
    Ok([authorization |-> <<"Bearer ">> \o GROQ_API_KEY,
        model |-> GROQ_MODEL,
        messages |-> <<[role |-> <<"user">>, content |-> prompt]>>,
        temperature |-> <<"0.7">>,
        max_tokens |-> <<"1024">>])

\* Up to the POST: the credential check, the headers and the payload.
call_groq_api_request(prompt) ==
    IF Len(GROQ_API_KEY) = 0
    THEN Err(Raise("ValueError", <<"GroqCloud API key is not configured">>))
    ELSE Ok([authorization |-> <<"Bearer ">> \o GROQ_API_KEY,
             model |-> GROQ_MODEL,
             messages |-> <<[role |-> <<"user">>, content |-> prompt]>>,
             temperature |-> <<"0.7">>,
             max_tokens |-> <<"1024">>])

\* Mutant of message_content: an absent `choices` falls back to an empty text.
message_content_lenient(response_data) ==
    IF "choices" \notin DOMAIN response_data
    THEN Ok(<<>>)
    ELSE IF Len(response_data.choices) = 0
    THEN Err(Raise("IndexError", <<"list index out of range">>))
    ELSE IF "message" \notin DOMAIN response_data.choices[1]
    THEN Err(Raise("KeyError", <<"message">>))
    ELSE IF "content" \notin DOMAIN response_data.choices[1].message
    THEN Err(Raise("KeyError", <<"content">>))
    ELSE Ok(Strip(response_data.choices[1].message.content))

\* response_data["choices"][0]["message"]["content"].strip()
message_content(response_data) ==
    IF "choices" \notin DOMAIN response_data
    THEN Err(Raise("KeyError", <<"choices">>))
    ELSE IF Len(response_data.choices) = 0
    THEN Err(Raise("IndexError", <<"list index out of range">>))
    ELSE IF "message" \notin DOMAIN response_data.choices[1]
    THEN Err(Raise("KeyError", <<"message">>))
    ELSE IF "content" \notin DOMAIN response_data.choices[1].message
    THEN Err(Raise("KeyError", <<"content">>))
    ELSE Ok(Strip(response_data.choices[1].message.content))

\* From the POST's outcome to the return or the raise.
call_groq_api_result(resp) ==
    IF resp.kind = "raise" THEN Err(resp.exc)
    ELSE IF resp.status_code # 200
    THEN Err(Raise("Exception", <<"GroqCloud API request failed with status code ">>
                                \o IntToStr(resp.status_code) \o <<": ">> \o resp.text))
    ELSE IF ~resp.json.ok THEN Err(resp.json.exc)
    ELSE message_content(resp.json.value)

(***************************************************************************)
(* generate_linkedin_post: the two prompts.                                *)
(***************************************************************************)
SummaryHead == <<"You are a helpful research assistant. Summarize the following search results about \"">>

SummaryMid == <<"\" in a clear, comprehensive way [...] SEARCH RESULTS:", "\n">>

SummaryTail == <<"\n", "Summary:">>

PostHead == <<"You're an expert LinkedIn content writer. Write an engaging LinkedIn post about \"">>

PostMid == <<"\" based on the following research summary: RESEARCH SUMMARY:", "\n">>

PostTail == <<"\n", "Follow these style guidelines: [...] LinkedIn Post:">>

result_block(result) == <<"Title: ">> \o result.title \o <<"\n", "Snippet: ">> \o result.snippet

\* Mutant of context_of: the blocks are joined last result first.
context_of_reversed(search_results) ==
    Join(<<"\n", "\n">>,
         [i \in 1..Len(search_results) |->
            result_block(search_results[Len(search_results) + 1 - i])])

context_of(search_results) ==
    Join(<<"\n", "\n">>, [i \in 1..Len(search_results) |-> result_block(search_results[i])])

summary_prompt(topic, search_results) ==
    SummaryHead \o topic \o SummaryMid \o context_of(search_results) \o SummaryTail

\* Mutant of post_prompt: the topic stands where the summary belongs.
post_prompt_topic_twice(topic, summary) == PostHead \o topic \o PostMid \o topic \o PostTail

post_prompt(topic, summary) == PostHead \o topic \o PostMid \o summary \o PostTail

(***************************************************************************)
(* process_topic.  An invocation's record: where the coroutine stands      *)
(* (pc), its locals, what it returned (ret, once pc = "returned"), and     *)
(* four histories: the exception a stage raised, the HTTP traffic (log),   *)
(* the prompts _call_groq_api was called with, and the progress milestones *)
(* (in tenths), each with the number of HTTP events and of _call_groq_api  *)
(* calls that came before it.                                              *)
(***************************************************************************)
Tasks == {1, 2}

PleaseEnter == <<"Please enter a topic to generate a LinkedIn post.">>

ErrorPrefix == <<"Error: ">>

Idle == [pc |-> "idle", topic |-> <<>>, search_results |-> <<>>, summary |-> <<>>,
         linkedin_post |-> <<>>, ret |-> <<>>, raised |-> <<>>, log |-> <<>>,
         groq_calls |-> <<>>, progress |-> <<>>]

Event(ev, data) == [ev |-> ev, data |-> data]

\* progress(value, ...), called when s.log is the HTTP traffic so far.
Milestone(s, value) ==
    [value |-> value, after |-> Len(s.log), calls |-> Len(s.groq_calls)]

\* Mutant of Catches: the handler names the errors it expects, timeouts not
\* among them.
Catches_NoTimeout(e) == e.cls \in ExceptionClasses \ {"TimeoutException"}

\* Mutant of Catches: `except ValueError` (JSONDecodeError derives from it).
Catches_ValueError(e) == e.cls \in {"ValueError", "JSONDecodeError"}

\* `except Exception as e`: every class of the model derives from Exception.
Catches(e) == e.cls \in ExceptionClasses

\* Mutant of ErrorText: repr(e) in place of str(e).
ErrorText_repr(e) == ErrorPrefix \o <<e.cls, "(">> \o e.msg \o <<")">>

ErrorText(e) == ErrorPrefix \o ExcStr(e)

\* An exception inside the try block: returned as text when caught, else it
\* leaves process_topic.
process_topic_except(s, e) ==
    IF Catches(e)
    THEN [s EXCEPT !.pc = "returned", !.raised = <<e>>, !.ret = ErrorText(e)]
    ELSE [s EXCEPT !.pc = "raised", !.raised = <<e>>]

\* _call_groq_api(prompt) up to its POST, inside the try block.
process_topic_post(s, prompt, stage) ==
    LET s1 == [s EXCEPT !.groq_calls = Append(@, prompt)]
        req == call_groq_api_request(prompt)
    IN  IF req.ok
        THEN [s1 EXCEPT !.pc = stage, !.log = Append(@, Event("POST", req.value))]
        ELSE process_topic_except(s1, req.exc)

\* Mutant of process_topic_begin: both credentials are checked before the
\* search starts.
process_topic_begin_precheck(s, topic) ==
    IF Len(Strip(topic)) = 0
    THEN [s EXCEPT !.pc = "returned", !.topic = topic, !.ret = PleaseEnter]
    ELSE LET s1 == [s EXCEPT !.topic = topic, !.progress = Append(@, Milestone(s, 1))]
             req == search_topic_request(topic)
         IN  IF Len(GROQ_API_KEY) = 0
             THEN process_topic_except(
                      s1, Raise("ValueError", <<"GroqCloud API key is not configured">>))
             ELSE IF req.ok
             THEN [s1 EXCEPT !.pc = "searching", !.log = Append(@, Event("GET", req.value))]
             ELSE process_topic_except(s1, req.exc)

\* Mutant of process_topic_begin: `if not topic`, without the strip.
process_topic_begin_nostrip(s, topic) ==
    IF Len(topic) = 0
    THEN [s EXCEPT !.pc = "returned", !.topic = topic, !.ret = PleaseEnter]
    ELSE LET s1 == [s EXCEPT !.topic = topic, !.progress = Append(@, Milestone(s, 1))]
             req == search_topic_request(topic)
         IN  IF req.ok
             THEN [s1 EXCEPT !.pc = "searching", !.log = Append(@, Event("GET", req.value))]
             ELSE process_topic_except(s1, req.exc)

\* The call, up to the GET of search_topic.
process_topic_begin(s, topic) ==
    IF Len(Strip(topic)) = 0
    THEN [s EXCEPT !.pc = "returned", !.topic = topic, !.ret = PleaseEnter]
    ELSE LET s1 == [s EXCEPT !.topic = topic, !.progress = Append(@, Milestone(s, 1))]
             req == search_topic_request(topic)
         IN  IF req.ok
             THEN [s1 EXCEPT !.pc = "searching", !.log = Append(@, Event("GET", req.value))]
             ELSE process_topic_except(s1, req.exc)

\* Mutant of process_topic_searched: a failed search is swallowed and the
\* pipeline goes on with no results.
process_topic_searched_unchecked(s, resp) ==
    LET s1 == [s EXCEPT !.log = Append(@, Event("GET_RETURN", resp))]
        res == search_topic_result(resp)
        results == IF res.ok THEN res.value ELSE <<>>
    IN  process_topic_post(
            [s1 EXCEPT !.search_results = results, !.progress = Append(@, Milestone(s1, 4))],
            summary_prompt(s.topic, results), "summarizing")

\* Mutant of process_topic_searched: the 0.4 milestone is reported before the
\* outcome of the search is known.
process_topic_searched_progress_first(s, resp) ==
    LET s1 == [s EXCEPT !.log = Append(@, Event("GET_RETURN", resp))]
        s2 == [s1 EXCEPT !.progress = Append(@, Milestone(s1, 4))]
        res == search_topic_result(resp)
    IN  IF ~res.ok THEN process_topic_except(s2, res.exc)
        ELSE process_topic_post([s2 EXCEPT !.search_results = res.value],
                                summary_prompt(s.topic, res.value), "summarizing")

\* From the GET's outcome to the POST of the summary prompt.
process_topic_searched(s, resp) ==
    LET s1 == [s EXCEPT !.log = Append(@, Event("GET_RETURN", resp))]
        res == search_topic_result(resp)
    IN  IF ~res.ok THEN process_topic_except(s1, res.exc)
        ELSE process_topic_post(
                 [s1 EXCEPT !.search_results = res.value, !.progress = Append(@, Milestone(s1, 4))],
                 summary_prompt(s.topic, res.value), "summarizing")

\* Mutant of process_topic_summarized: one completion call does both jobs and
\* its text is returned as the post.
process_topic_summarized_single(s, resp) ==
    LET s1 == [s EXCEPT !.log = Append(@, Event("POST_RETURN", resp))]
        res == call_groq_api_result(resp)
    IN  IF ~res.ok THEN process_topic_except(s1, res.exc)
        ELSE [s1 EXCEPT !.pc = "returned", !.summary = res.value,
                        !.linkedin_post = res.value, !.ret = res.value]

\* Mutant of process_topic_summarized: a failed summary call is tried again.
process_topic_summarized_retry(s, resp) ==
    LET s1 == [s EXCEPT !.log = Append(@, Event("POST_RETURN", resp))]
        res == call_groq_api_result(resp)
    IN  IF ~res.ok
        THEN process_topic_post(s1, summary_prompt(s.topic, s.search_results), "summarizing")
        ELSE process_topic_post([s1 EXCEPT !.summary = res.value],
                                post_prompt(s.topic, res.value), "post_generating")

\* From the first POST's outcome to the POST of the post prompt.
process_topic_summarized(s, resp) ==
    LET s1 == [s EXCEPT !.log = Append(@, Event("POST_RETURN", resp))]
        res == call_groq_api_result(resp)
    IN  IF ~res.ok THEN process_topic_except(s1, res.exc)
        ELSE process_topic_post([s1 EXCEPT !.summary = res.value],
                                post_prompt(s.topic, res.value), "post_generating")

\* Mutant of process_topic_posted: when the post call fails the summary is
\* returned in its place.
process_topic_posted_fallback(s, resp) ==
    LET s1 == [s EXCEPT !.log = Append(@, Event("POST_RETURN", resp))]
        res == call_groq_api_result(resp)
    IN  IF ~res.ok THEN [s1 EXCEPT !.pc = "returned", !.raised = <<res.exc>>, !.ret = s.summary]
        ELSE [s1 EXCEPT !.pc = "returned", !.linkedin_post = res.value,
                        !.progress = Append(@, Milestone(s1, 9)), !.ret = res.value]

\* Mutant of process_topic_posted: the summary is returned, not the post.
process_topic_posted_summary(s, resp) ==
    LET s1 == [s EXCEPT !.log = Append(@, Event("POST_RETURN", resp))]
        res == call_groq_api_result(resp)
    IN  IF ~res.ok THEN process_topic_except(s1, res.exc)
        ELSE [s1 EXCEPT !.pc = "returned", !.linkedin_post = res.value,
                        !.progress = Append(@, Milestone(s1, 9)), !.ret = s.summary]

\* From the second POST's outcome to the return of the post.
process_topic_posted(s, resp) ==
    LET s1 == [s EXCEPT !.log = Append(@, Event("POST_RETURN", resp))]
        res == call_groq_api_result(resp)
    IN  IF ~res.ok THEN process_topic_except(s1, res.exc)
        ELSE [s1 EXCEPT !.pc = "returned", !.linkedin_post = res.value,
                        !.progress = Append(@, Milestone(s1, 9)), !.ret = res.value]

(***************************************************************************)
(* Actions: one per stretch of code between two suspension points.         *)
(***************************************************************************)
Call(t, topics) ==
    /\ inv[t].pc = "idle"
    /\ \E topic \in topics : inv' = [inv EXCEPT ![t] = process_topic_begin(@, topic)]
    /\ UNCHANGED config

\* Mutant of SearchReturn: search_results is a module-level variable, so the
\* assignment shows in every invocation.
SearchReturn_shared(t, responses) ==
    /\ inv[t].pc = "searching"
    /\ \E resp \in responses :
         LET mine == process_topic_searched(inv[t], resp)
         IN  inv' = [u \in DOMAIN inv |->
                       IF u = t THEN mine
                       ELSE [inv[u] EXCEPT !.search_results = mine.search_results]]
    /\ UNCHANGED config

SearchReturn(t, responses) ==
    /\ inv[t].pc = "searching"
    /\ \E resp \in responses : inv' = [inv EXCEPT ![t] = process_topic_searched(@, resp)]
    /\ UNCHANGED config

SummaryReturn(t, responses) ==
    /\ inv[t].pc = "summarizing"
    /\ \E resp \in responses : inv' = [inv EXCEPT ![t] = process_topic_summarized(@, resp)]
    /\ UNCHANGED config

PostReturn(t, responses) ==
    /\ inv[t].pc = "post_generating"
    /\ \E resp \in responses : inv' = [inv EXCEPT ![t] = process_topic_posted(@, resp)]
    /\ UNCHANGED config

\* One invocation, the full inputs.
Init == config \in Configs /\ inv = [t \in {1} |-> Idle]

CallStep == \E t \in DOMAIN inv : Call(t, Topics)

SearchStep == \E t \in DOMAIN inv : SearchReturn(t, SearchResponses)

SummaryStep == \E t \in DOMAIN inv : SummaryReturn(t, ChatResponses)

PostStep == \E t \in DOMAIN inv : PostReturn(t, ChatResponses)

Next == CallStep \/ SearchStep \/ SummaryStep \/ PostStep

Spec == Init /\ [][Next]_vars

\* One invocation whose outbound calls all end: the client of each call has a
\* timeout (30 s for the GET, 60 s for a POST), so an awaited call returns a
\* response or raises.
SpecLive ==
    /\ Init
    /\ [][Next]_vars
    /\ WF_vars(SearchStep)
    /\ WF_vars(SummaryStep)
    /\ WF_vars(PostStep)

\* Two invocations interleaving at their suspension points.
InitConc == config \in Configs /\ inv = [t \in Tasks |-> Idle]

ConcCallStep == \E t \in DOMAIN inv : Call(t, ConcTopics)

ConcSearchStep == \E t \in DOMAIN inv : SearchReturn(t, ConcSearchResponses)

ConcSummaryStep == \E t \in DOMAIN inv : SummaryReturn(t, ConcChatResponses)

ConcPostStep == \E t \in DOMAIN inv : PostReturn(t, ConcChatResponses)

NextConc == ConcCallStep \/ ConcSearchStep \/ ConcSummaryStep \/ ConcPostStep

SpecConc == InitConc /\ [][NextConc]_vars

(***************************************************************************)
(* Vocabulary of the properties.                                           *)
(***************************************************************************)
EventNames(log) == [i \in 1..Len(log) |-> log[i].ev]

PipelineOrder == <<"GET", "GET_RETURN", "POST", "POST_RETURN", "POST", "POST_RETURN">>

IsPrefix(a, b) == Len(a) <= Len(b) /\ SubSeq(b, 1, Len(a)) = a

Posts(log) == {i \in 1..Len(log) : log[i].ev = "POST"}

Gets(log) == {i \in 1..Len(log) : log[i].ev = "GET"}

IsText(s) == \A i \in 1..Len(s) : s[i] \in STRING

IsBlank(s) == \A i \in 1..Len(s) : s[i] \in Whitespace

\* The provider answered with status 200 and a body that parses.
Parsed(resp) == resp.kind = "response" /\ resp.status_code = 200 /\ resp.json.ok

\* The provider answered with a status other than 200.
BadStatus(resp) == resp.kind = "response" /\ resp.status_code # 200

\* A search answer with at least one organic result.
HasOrganic(resp) ==
    /\ Parsed(resp)
    /\ "organic_results" \in DOMAIN resp.json.value
    /\ Len(resp.json.value.organic_results) > 0

\* A completion answer with the whole choices[0].message.content path.
HasContent(resp) ==
    /\ Parsed(resp)
    /\ "choices" \in DOMAIN resp.json.value
    /\ Len(resp.json.value.choices) > 0
    /\ "message" \in DOMAIN resp.json.value.choices[1]
    /\ "content" \in DOMAIN resp.json.value.choices[1].message

ContentOf(resp) == resp.json.value.choices[1].message.content

PromptOf(event) == event.data.messages[1].content

DigitValue(c) == CHOOSE d \in 0..9 : Digit(d) = c

IsDecimal(d) == Len(d) > 0 /\ \A i \in 1..Len(d) : \E n \in 0..9 : Digit(n) = d[i]

\* The number a decimal text reads as.
RECURSIVE DecimalValue(_)
DecimalValue(d) ==
    IF Len(d) = 0 THEN 0
    ELSE 10 * DecimalValue(SubSeq(d, 1, Len(d) - 1)) + DigitValue(d[Len(d)])

\* Text s holds the decimal text of n.
ShowsNumber(s, n) ==
    \E i \in 1..Len(s) : \E j \in i..Len(s) :
        IsDecimal(SubSeq(s, i, j)) /\ DecimalValue(SubSeq(s, i, j)) = n

(***************************************************************************)
(* C1.  Within an invocation the outbound calls happen in the order GET,   *)
(* POST (summary), POST (post), each issued only after the one before it   *)
(* returned: no POST precedes the successful return of the search with a   *)
(* non-empty result list, and the second POST follows the successful       *)
(* return of the first, whatever the interleaving with other invocations.  *)
(***************************************************************************)
C1_OrderedCalls ==
    \A t \in DOMAIN inv :
        LET log == inv[t].log
        IN  /\ IsPrefix(EventNames(log), PipelineOrder)
            /\ Len(log) >= 3 => HasOrganic(log[2].data) /\ Len(inv[t].search_results) > 0
            /\ Len(log) >= 5 => HasContent(log[4].data)

C1_Witness ==
    \E t \in DOMAIN inv : \E u \in DOMAIN inv :
        /\ t # u
        /\ Len(inv[t].log) = 6
        /\ inv[u].pc = "summarizing"

(***************************************************************************)
(* C2.  No failure of a stage leaves process_topic as an exception: once a *)
(* stage has raised, or a provider call has raised or answered with a      *)
(* status other than 200, the invocation has returned a text.              *)
(***************************************************************************)
C2_NeverPropagates ==
    \A t \in DOMAIN inv :
        LET s == inv[t]
        IN  /\ s.pc # "raised"
            /\ Len(s.raised) > 0 => s.pc = "returned" /\ IsText(s.ret)
            /\ (/\ Len(s.log) > 0
                /\ s.log[Len(s.log)].ev \in {"GET_RETURN", "POST_RETURN"}
                /\ ~Parsed(s.log[Len(s.log)].data))
               => s.pc = "returned" /\ IsText(s.ret)

C2_Witness ==
    \E t \in DOMAIN inv :
        /\ inv[t].pc = "returned"
        /\ Len(inv[t].raised) = 1
        /\ inv[t].raised[1].cls = "KeyError"

(***************************************************************************)
(* C3.  A call with an empty or whitespace-only topic returns the fixed    *)
(* message and issues no request to either provider.                       *)
(***************************************************************************)
C3_BlankTopic ==
    \A t \in DOMAIN inv :
        (inv[t].pc # "idle" /\ IsBlank(inv[t].topic))
        => /\ inv[t].pc = "returned"
           /\ inv[t].ret = <<"Please enter a topic to generate a LinkedIn post.">>
           /\ inv[t].log = <<>>

C3_Witness ==
    \E t \in DOMAIN inv :
        /\ inv[t].pc = "returned"
        /\ Len(inv[t].topic) > 0
        /\ IsBlank(inv[t].topic)
        /\ Len(SERPAPI_KEY) > 0

(***************************************************************************)
(* C4.  When the search provider answers with a status other than 200,     *)
(* process_topic returns a text that begins with "Error: " and shows that  *)
(* status code, and no request went to the language-model provider.        *)
(***************************************************************************)
C4_SearchBadStatus ==
    \A t \in DOMAIN inv :
        LET s == inv[t]
        IN  (Len(s.log) >= 2 /\ BadStatus(s.log[2].data))
            => /\ s.pc = "returned"
               /\ StartsWith(s.ret, <<"Error: ">>)
               /\ ShowsNumber(s.ret, s.log[2].data.status_code)
               /\ Posts(s.log) = {}

C4_Witness ==
    \E t \in DOMAIN inv :
        /\ Len(inv[t].log) >= 2
        /\ BadStatus(inv[t].log[2].data)
        /\ inv[t].log[2].data.status_code = 500
        /\ Len(GROQ_API_KEY) > 0

(***************************************************************************)
(* C5.  When the summary-stage request is answered with status 200 and a   *)
(* JSON body without `choices`, process_topic returns a text beginning     *)
(* with "Error: ", the summary prompt was sent exactly once and the post   *)
(* prompt never.                                                           *)
(***************************************************************************)
C5_MissingChoices ==
    \A t \in DOMAIN inv :
        LET s == inv[t]
        IN  (/\ Len(s.log) >= 4
             /\ Parsed(s.log[4].data)
             /\ "choices" \notin DOMAIN s.log[4].data.json.value)
            => /\ s.pc = "returned"
               /\ StartsWith(s.ret, <<"Error: ">>)
               /\ Posts(s.log) = {3}
               /\ StartsWith(PromptOf(s.log[3]), SummaryHead)

C5_Witness ==
    \E t \in DOMAIN inv :
        /\ Len(inv[t].log) = 4
        /\ Parsed(inv[t].log[4].data)
        /\ "choices" \notin DOMAIN inv[t].log[4].data.json.value

(***************************************************************************)
(* C6.  When the search and both completion calls succeed, process_topic   *)
(* returns exactly the text the second completion call returned (the       *)
(* content of its answer, stripped), not the summary or a mix of the two:  *)
(* with the first answer "x" and the second " y\n" the output is "y".      *)
(***************************************************************************)
C6_ReturnsPost ==
    \A t \in DOMAIN inv :
        LET s == inv[t]
        IN  (s.pc = "returned" /\ Len(s.log) = 6 /\ HasContent(s.log[6].data))
            => /\ s.ret = call_groq_api_result(s.log[6].data).value
               /\ (ContentOf(s.log[4].data) = <<"x">>
                   /\ ContentOf(s.log[6].data) = <<" ", "y", "\n">>) => s.ret = <<"y">>

C6_Witness ==
    \E t \in DOMAIN inv :
        /\ inv[t].pc = "returned"
        /\ Len(inv[t].log) = 6
        /\ HasContent(inv[t].log[6].data)
        /\ inv[t].summary = <<"x">>
        /\ inv[t].ret = <<"y">>

(***************************************************************************)
(* C7.  The prompt of the second completion call holds, verbatim, the text *)
(* the first completion call returned, and both prompts hold the caller's  *)
(* topic verbatim.                                                         *)
(***************************************************************************)
C7_PromptsEmbed ==
    \A t \in DOMAIN inv :
        LET s == inv[t]
        IN  /\ \A i \in Posts(s.log) : Contains(PromptOf(s.log[i]), s.topic)
            /\ Len(s.log) >= 5
               => Contains(PromptOf(s.log[5]), call_groq_api_result(s.log[4].data).value)

C7_Witness ==
    \E t \in DOMAIN inv :
        /\ Len(inv[t].log) >= 5
        /\ inv[t].topic = <<" ", "a">>
        /\ ContentOf(inv[t].log[4].data) = <<" ", "y", "\n">>
        /\ Contains(PromptOf(inv[t].log[5]), <<"y">>)

(***************************************************************************)
(* C8.  A 200 answer of the search provider whose body has no              *)
(* organic_results field, or an empty one, makes search_topic raise        *)
(* "No search results found"; search_topic never returns an empty list.    *)
(***************************************************************************)
C8_NoResults ==
    \A t \in DOMAIN inv :
        LET s == inv[t]
        IN  /\ (Len(s.log) >= 2 /\ Parsed(s.log[2].data) /\ ~HasOrganic(s.log[2].data))
               => /\ s.raised = <<Raise("Exception", <<"No search results found">>)>>
                  /\ Len(s.log) = 2
                  /\ s.search_results = <<>>
            /\ (Len(s.log) >= 2 /\ Len(s.raised) = 0) => Len(s.search_results) > 0

C8_Witness ==
    \E t \in DOMAIN inv :
        /\ Len(inv[t].log) = 2
        /\ Parsed(inv[t].log[2].data)
        /\ "organic_results" \in DOMAIN inv[t].log[2].data.json.value
        /\ ~HasOrganic(inv[t].log[2].data)
        /\ inv[t].pc = "returned"

(***************************************************************************)
(* C9.  For a 200 answer with n >= 1 organic results and a positive        *)
(* configured maximum, search_topic returns min(n, maximum) results, the   *)
(* i-th built from the provider's i-th (absent fields as "").              *)
(***************************************************************************)
C9_PrefixOfProviderList ==
    \A t \in DOMAIN inv :
        LET s == inv[t]
        IN  (Len(s.log) >= 2 /\ HasOrganic(s.log[2].data) /\ MAX_SEARCH_RESULTS > 0)
            => LET organic == s.log[2].data.json.value.organic_results
               IN  /\ Len(s.search_results) > 0
                   /\ Len(s.search_results) = Min(Len(organic), MAX_SEARCH_RESULTS)
                   /\ \A i \in 1..Len(s.search_results) :
                        /\ s.search_results[i].title = DictGet(organic[i], "title", <<>>)
                        /\ s.search_results[i].snippet = DictGet(organic[i], "snippet", <<>>)

C9_Witness ==
    \E t \in DOMAIN inv :
        /\ Len(inv[t].log) >= 2
        /\ HasOrganic(inv[t].log[2].data)
        /\ MAX_SEARCH_RESULTS = 1
        /\ Len(inv[t].log[2].data.json.value.organic_results) = 2
        /\ inv[t].log[2].data.json.value.organic_results[1]
             # inv[t].log[2].data.json.value.organic_results[2]
        /\ Len(inv[t].search_results) = 1

(***************************************************************************)
(* C10.  On a stage failure process_topic returns exactly "Error: "        *)
(* followed by str() of the exception the failing stage raised, in the     *)
(* same form for every kind of error: a missing credential, a status other *)
(* than 200, no results, a malformed answer, a transport error.            *)
(***************************************************************************)
C10_ErrorFormat ==
    \A t \in DOMAIN inv :
        LET s == inv[t]
            last == s.log[Len(s.log)]
        IN  /\ Len(s.raised) = 1 => s.ret = <<"Error: ">> \o ExcStr(s.raised[1])
            /\ (s.pc = "returned" /\ ~IsBlank(s.topic) /\ Len(SERPAPI_KEY) = 0)
               => s.ret = <<"Error: ", "SerpAPI key is not configured">>
            /\ (s.pc = "returned" /\ Len(s.log) = 2 /\ HasOrganic(last.data)
                   /\ MAX_SEARCH_RESULTS > 0)
               => s.ret = <<"Error: ", "GroqCloud API key is not configured">>
            /\ (Len(s.log) = 2 /\ BadStatus(last.data))
               => s.ret = <<"Error: ", "SerpAPI request failed with status code ">>
                          \o IntToStr(last.data.status_code) \o <<": ">> \o last.data.text
            /\ (Len(s.log) \in {4, 6} /\ BadStatus(last.data))
               => s.ret = <<"Error: ", "GroqCloud API request failed with status code ">>
                          \o IntToStr(last.data.status_code) \o <<": ">> \o last.data.text
            /\ (Len(s.log) = 2 /\ Parsed(last.data) /\ ~HasOrganic(last.data))
               => s.ret = <<"Error: ", "No search results found">>
            /\ (Len(s.log) \in {4, 6} /\ Parsed(last.data)
                   /\ "choices" \notin DOMAIN last.data.json.value)
               => s.ret = <<"Error: ", "'", "choices", "'">>
            /\ (Len(s.log) \in {2, 4, 6} /\ last.data.kind = "raise")
               => s.ret = <<"Error: ">> \o last.data.exc.msg

C10_Witness ==
    \E t \in DOMAIN inv :
        /\ Len(inv[t].log) = 6
        /\ BadStatus(inv[t].log[6].data)
        /\ inv[t].pc = "returned"
        /\ Len(inv[t].raised) = 1

(***************************************************************************)
(* C11.  An invocation moves idle -> searching -> summarizing ->           *)
(* post_generating -> returned, one stage at a time, or from any stage     *)
(* straight to returned (a failure; from idle also the rejection of a      *)
(* blank topic).  No stage is entered again, the HTTP log only grows and   *)
(* holds at most one GET and at most two POSTs, and a returned invocation  *)
(* does nothing more.                                                      *)
(***************************************************************************)
StageEdges == {<<"idle", "searching">>, <<"searching", "summarizing">>,
               <<"summarizing", "post_generating">>, <<"post_generating", "returned">>}
              \cup {<<st, "returned">> : st \in {"idle", "searching", "summarizing"}}

StageStep(a, b) ==
    \/ b = a
    \/ /\ <<a.pc, b.pc>> \in StageEdges
       /\ IsPrefix(a.log, b.log)
       /\ Cardinality(Gets(b.log)) <= 1
       /\ Cardinality(Posts(b.log)) <= 2
       /\ b.pc = "searching" <=> (Len(b.log) = 1 /\ b.log[1].ev = "GET")
       /\ b.pc = "summarizing" <=> (Len(b.log) = 3 /\ b.log[3].ev = "POST")
       /\ b.pc = "post_generating" <=> (Len(b.log) = 5 /\ b.log[5].ev = "POST")

C11_StageOrder == [][\A t \in DOMAIN inv : StageStep(inv[t], inv'[t])]_vars

C11_Witness ==
    \E t \in DOMAIN inv :
        /\ inv[t].pc = "returned"
        /\ Gets(inv[t].log) = {1}
        /\ Posts(inv[t].log) = {3, 5}
        /\ Len(inv[t].raised) = 1

(***************************************************************************)
(* C12.  As claimed: every invocation that ran the pipeline (a topic that  *)
(* is not blank) and returned has called _call_groq_api exactly twice.     *)
(***************************************************************************)
C12_ExactlyTwice ==
    \A t \in DOMAIN inv :
        (inv[t].pc = "returned" /\ ~IsBlank(inv[t].topic)) => Len(inv[t].groq_calls) = 2

(***************************************************************************)
(* C12, amended.  _call_groq_api is called at most twice per invocation,   *)
(* first with the summary prompt and then with a different prompt, the     *)
(* post prompt; and exactly twice in every invocation that returned after  *)
(* its search and its first completion call succeeded.                     *)
(***************************************************************************)
C12_AtMostTwice ==
    \A t \in DOMAIN inv :
        LET s == inv[t]
        IN  /\ Len(s.groq_calls) <= 2
            /\ Len(s.groq_calls) >= 1 => StartsWith(s.groq_calls[1], SummaryHead)
            /\ Len(s.groq_calls) = 2
               => StartsWith(s.groq_calls[2], PostHead) /\ s.groq_calls[1] # s.groq_calls[2]
            /\ (s.pc = "returned" /\ Len(s.log) >= 4 /\ HasContent(s.log[4].data))
               => Len(s.groq_calls) = 2
            /\ (s.pc = "returned" /\ (Len(s.log) < 4 \/ ~HasContent(s.log[4].data)))
               => Len(s.groq_calls) < 2

C12_Witness ==
    \E t \in DOMAIN inv :
        /\ inv[t].pc = "returned"
        /\ Len(inv[t].groq_calls) = 2
        /\ Len(inv[t].raised) = 0

(***************************************************************************)
(* C13.  Without the search credential search_topic raises the             *)
(* configuration error and no GET is issued; without the language-model    *)
(* credential _call_groq_api raises its configuration error and no POST is *)
(* issued; either way process_topic returns a text beginning with          *)
(* "Error: ".                                                              *)
(***************************************************************************)
C13_MissingCredential ==
    \A t \in DOMAIN inv :
        LET s == inv[t]
        IN  /\ Len(SERPAPI_KEY) = 0
               => /\ s.log = <<>>
                  /\ (s.pc # "idle" /\ ~IsBlank(s.topic))
                     => /\ s.pc = "returned"
                        /\ s.raised = <<Raise("ValueError", <<"SerpAPI key is not configured">>)>>
                        /\ StartsWith(s.ret, <<"Error: ">>)
            /\ Len(GROQ_API_KEY) = 0
               => /\ Posts(s.log) = {}
                  /\ Len(s.groq_calls) >= 1
                     => /\ s.pc = "returned"
                        /\ s.raised = <<Raise("ValueError", <<"GroqCloud API key is not configured">>)>>
                        /\ StartsWith(s.ret, <<"Error: ">>)

C13_Witness ==
    \E t \in DOMAIN inv :
        /\ Len(GROQ_API_KEY) = 0
        /\ Len(inv[t].groq_calls) = 1
        /\ inv[t].pc = "returned"

(***************************************************************************)
(* C14.  With invocations interleaving at their suspension points, the     *)
(* configuration never changes, a step changes the record of one           *)
(* invocation only, and two invocations called with the same topic that    *)
(* got the same answers to their own calls have sent the same prompts and  *)
(* returned the same text, whatever the other did in between.              *)
(***************************************************************************)
Answers(log) == SelectSeq(log, LAMBDA e : e.ev \in {"GET_RETURN", "POST_RETURN"})

Requests(log) == SelectSeq(log, LAMBDA e : e.ev \in {"GET", "POST"})

SameInputsSameOutputs ==
    \A t \in DOMAIN inv : \A u \in DOMAIN inv :
        (/\ inv[t].pc # "idle"
         /\ inv[u].pc # "idle"
         /\ inv[t].topic = inv[u].topic
         /\ Answers(inv[t].log) = Answers(inv[u].log))
        => /\ inv[t].pc = inv[u].pc
           /\ inv[t].ret = inv[u].ret
           /\ Requests(inv[t].log) = Requests(inv[u].log)
           /\ inv[t].groq_calls = inv[u].groq_calls

C14_Isolation ==
    [][/\ config' = config
       /\ DOMAIN inv' = DOMAIN inv
       /\ \E t \in DOMAIN inv : \A u \in DOMAIN inv \ {t} : inv'[u] = inv[u]
       /\ SameInputsSameOutputs']_vars

C14_Witness ==
    \E t \in DOMAIN inv : \E u \in DOMAIN inv :
        /\ t # u
        /\ inv[t].pc = "returned"
        /\ Len(inv[t].log) = 6
        /\ inv[u].pc = "returned"
        /\ Len(inv[u].log) = 4
        /\ inv[t].topic # inv[u].topic

(***************************************************************************)
(* C15.  An organic result without `title` or `snippet` never makes        *)
(* search_topic fail: every element it returns has both keys, an absent    *)
(* field being the empty text, and the summary prompt is built from them   *)
(* (it is the first argument _call_groq_api gets).                         *)
(***************************************************************************)
C15_MissingFields ==
    \A t \in DOMAIN inv :
        LET s == inv[t]
        IN  (Len(s.log) >= 2 /\ HasOrganic(s.log[2].data) /\ MAX_SEARCH_RESULTS > 0)
            => LET organic == s.log[2].data.json.value.organic_results
               IN  /\ Len(s.search_results) > 0
                   /\ \A i \in 1..Len(s.search_results) :
                        /\ DOMAIN s.search_results[i] = {"title", "snippet"}
                        /\ \A k \in {"title", "snippet"} :
                             s.search_results[i][k] =
                                 IF k \in DOMAIN organic[i] THEN organic[i][k] ELSE <<>>
                   /\ Len(s.groq_calls) >= 1
                   /\ StartsWith(s.groq_calls[1], SummaryHead)
                   /\ Len(s.raised) = 1 => Len(s.log) # 2 \/ s.raised[1].cls = "ValueError"

C15_Witness ==
    \E t \in DOMAIN inv :
        /\ Len(inv[t].log) >= 3
        /\ HasOrganic(inv[t].log[2].data)
        /\ DOMAIN inv[t].log[2].data.json.value.organic_results[1] = {}
        /\ Len(inv[t].log[2].data.json.value.organic_results) = 2
        /\ DOMAIN inv[t].log[2].data.json.value.organic_results[2] = {"snippet"}
        /\ Len(inv[t].search_results) = 2

(***************************************************************************)
(* C16.  The prompts are functions of their inputs alone: the summary      *)
(* prompt is the fixed template around the topic and one                   *)
(* `Title: ... / Snippet: ...` block per search result, in the order of    *)
(* the results and separated by a blank line; the post prompt is the fixed *)
(* template around the topic and the summary.                              *)
(***************************************************************************)
RECURSIVE BlocksFrom(_, _)
BlocksFrom(results, i) ==
    IF i > Len(results) THEN <<>>
    ELSE (IF i > 1 THEN <<"\n", "\n">> ELSE <<>>)
         \o <<"Title: ">> \o results[i].title \o <<"\n", "Snippet: ">> \o results[i].snippet
         \o BlocksFrom(results, i + 1)

Occurrences(s, token) == Cardinality({i \in 1..Len(s) : s[i] = token})

C16_PromptsDetermined ==
    \A t \in DOMAIN inv :
        LET s == inv[t]
        IN  /\ Len(s.groq_calls) >= 1
               => /\ s.groq_calls[1] =
                       SummaryHead \o s.topic \o SummaryMid
                       \o BlocksFrom(s.search_results, 1) \o SummaryTail
                  /\ Occurrences(s.groq_calls[1], "Title: ") = Len(s.search_results)
                  /\ Occurrences(s.groq_calls[1], "Snippet: ") = Len(s.search_results)
            /\ Len(s.groq_calls) = 2
               => s.groq_calls[2] = PostHead \o s.topic \o PostMid \o s.summary \o PostTail
            /\ \A i \in Posts(s.log) :
                 PromptOf(s.log[i]) = s.groq_calls[IF i = 3 THEN 1 ELSE 2]

C16_Witness ==
    \E t \in DOMAIN inv :
        /\ Len(inv[t].groq_calls) = 2
        /\ Len(inv[t].search_results) = 2
        /\ inv[t].search_results[1] # inv[t].search_results[2]
        /\ inv[t].summary = <<"y">>

(***************************************************************************)
(* C17.  The milestones are reported in the order 0.1, 0.4, 0.9, each at   *)
(* most once: 0.1 before the GET is issued, 0.4 once the search returned   *)
(* results and before _call_groq_api is first called, 0.9 once both        *)
(* completion calls returned a text and before the post is returned.  A    *)
(* failed invocation has reported the milestones of the stages it reached  *)
(* and no other; a blank topic reports none.                               *)
(***************************************************************************)
MilestoneValues(progress) == [i \in 1..Len(progress) |-> progress[i].value]

C17_Milestones ==
    \A t \in DOMAIN inv :
        LET s == inv[t]
            n == Len(s.progress)
        IN  /\ IsPrefix(MilestoneValues(s.progress), <<1, 4, 9>>)
            /\ n >= 1 <=> (s.pc # "idle" /\ ~IsBlank(s.topic))
            /\ n >= 1 => s.progress[1].after = 0 /\ s.progress[1].calls = 0
            /\ n >= 2 <=> (Len(s.log) >= 2 /\ Len(s.search_results) > 0)
            /\ n >= 2 => /\ s.progress[2].after = 2
                         /\ s.progress[2].calls = 0
                         /\ HasOrganic(s.log[2].data)
            /\ n = 3 <=> (Len(s.log) = 6 /\ HasContent(s.log[6].data))
            /\ n = 3 => /\ s.progress[3].after = 6
                        /\ s.progress[3].calls = 2
                        /\ HasContent(s.log[4].data)
                        /\ s.pc = "returned"
                        /\ s.ret = s.linkedin_post

C17_Witness ==
    \E t \in DOMAIN inv :
        /\ Len(inv[t].raised) = 1
        /\ Len(inv[t].log) = 4
        /\ Len(inv[t].progress) = 2

(***************************************************************************)
(* C18.  When every outbound call ends (with a response, an error or its   *)
(* timeout), every invocation that was called returns; and a timeout of    *)
(* any call is the last HTTP event of its invocation, which has returned a *)
(* text beginning with "Error: ".                                          *)
(***************************************************************************)
TimedOut(event) ==
    /\ event.ev \in {"GET_RETURN", "POST_RETURN"}
    /\ event.data.kind = "raise"
    /\ event.data.exc.cls = "TimeoutException"

TimeoutEnds ==
    \A t \in DOMAIN inv :
        \A i \in 1..Len(inv[t].log) :
            TimedOut(inv[t].log[i])
            => /\ i = Len(inv[t].log)
               /\ inv[t].pc = "returned"
               /\ StartsWith(inv[t].ret, <<"Error: ">>)

C18_Terminates ==
    /\ (inv[1].pc # "idle") ~> (inv[1].pc = "returned")
    /\ []TimeoutEnds

C18_Witness ==
    \E t \in DOMAIN inv :
        /\ Len(inv[t].log) = 4
        /\ TimedOut(inv[t].log[4])
        /\ inv[t].pc = "returned"

(***************************************************************************)
(* C19.  When the summary call succeeded and the post call fails (an       *)
(* error, a status other than 200, an answer that is not JSON or lacks the *)
(* content path), process_topic returns a text beginning with "Error: "    *)
(* that is not the summary and does not hold it.                           *)
(***************************************************************************)
C19_NoPartialResult ==
    \A t \in DOMAIN inv :
        LET s == inv[t]
        IN  (Len(s.log) = 6 /\ ~HasContent(s.log[6].data))
            => /\ s.pc = "returned"
               /\ StartsWith(s.ret, <<"Error: ">>)
               /\ s.ret # s.summary
               /\ s.ret # ContentOf(s.log[4].data)
               /\ Len(s.summary) > 0 => ~Contains(s.ret, s.summary)
               /\ s.linkedin_post = <<>>

C19_Witness ==
    \E t \in DOMAIN inv :
        /\ Len(inv[t].log) = 6
        /\ BadStatus(inv[t].log[6].data)
        /\ inv[t].summary = <<"x">>
        /\ inv[t].pc = "returned"

(***************************************************************************)
(* C20.  With the search credential set and the language-model credential  *)
(* absent, an invocation with a topic that is not blank issues exactly one *)
(* GET and no POST, and raises the language-model configuration error only *)
(* once that GET returned results: until then it waits for the search, and *)
(* a failed search is reported as such.                                    *)
(***************************************************************************)
GroqKeyError == Raise("ValueError", <<"GroqCloud API key is not configured">>)

C20_LateCredentialCheck ==
    \A t \in DOMAIN inv :
        LET s == inv[t]
        IN  (/\ Len(SERPAPI_KEY) > 0
             /\ Len(GROQ_API_KEY) = 0
             /\ s.pc # "idle"
             /\ ~IsBlank(s.topic))
            => /\ Gets(s.log) = {1}
               /\ Posts(s.log) = {}
               /\ Len(s.log) = 1 => s.pc = "searching" /\ s.raised = <<>>
               /\ Len(s.log) = 2 => s.pc = "returned"
               /\ s.raised = <<GroqKeyError>>
                  <=> (Len(s.log) = 2 /\ Len(s.search_results) > 0)
               /\ s.raised = <<GroqKeyError>>
                  => /\ HasOrganic(s.log[2].data)
                     /\ s.ret = <<"Error: ", "GroqCloud API key is not configured">>

C20_Witness ==
    \E t \in DOMAIN inv :
        /\ Len(SERPAPI_KEY) > 0
        /\ Len(GROQ_API_KEY) = 0
        /\ inv[t].raised = <<GroqKeyError>>
        /\ Len(inv[t].log) = 2

====
